---- MODULE Spec2Model ----
(***************************************************************************)
(* domx: the streaming HTML tokenizer (src/src/parser.rs) and the DOM      *)
(* builder it drives (src/src/dom.rs).                                     *)
(*                                                                         *)
(* A byte is a one-character string, a byte buffer a sequence of them.     *)
(* All bytes of the model are ASCII, so String::from_utf8 never fails.     *)
(***************************************************************************)
EXTENDS Integers, Sequences, FiniteSets, TLC

VARIABLES
    delivered,      \* every byte the source has handed out so far, in order
    buf,            \* parse: buf
    end_of_file,    \* parse: end_of_file
    state,          \* parse: state (ParserState)
    tag,            \* parse: tag (ParserTag)
    total_parsed,   \* parse: total_parsed
    events,         \* the handler's callbacks so far, in call order
    tag_start,      \* bytes consumed before the '<' of the tag being read
    pc,             \* "outer" | "inner" | "returned" | "aborted"
    result,         \* what parse returned, or the panic that aborted it
    temp_dom,       \* a Dom used on its own: store, current, and its panic
    op,             \* the last operation made on temp_dom, with its arguments
    hist            \* what the operations on temp_dom have returned so far

pvars == <<delivered, buf, end_of_file, state, tag, total_parsed,
           events, tag_start, pc, result>>

dvars == <<temp_dom, op, hist>>

vars == <<delivered, buf, end_of_file, state, tag, total_parsed,
          events, tag_start, pc, result, temp_dom, op, hist>>

----------------------------------------------------------------------------
(* Sequence helpers *)

Last(s) == s[Len(s)]

Front(s) == SubSeq(s, 1, Len(s) - 1)

Drop(s, n) == SubSeq(s, n + 1, Len(s))

IsPrefix(p, s) == Len(p) <= Len(s) /\ SubSeq(s, 1, Len(p)) = p

----------------------------------------------------------------------------
(* Tag: the closed enumeration of element names (tag.rs).  Only its        *)
(* contract is available: FromStr resolves a lower-case name, Display      *)
(* prints the lower-case name.                                             *)

NameP == <<"p">>
NameB == <<"b">>
NameScript == <<"s", "c", "r", "i", "p", "t">>
NameStyle == <<"s", "t", "y", "l", "e">>

NoTag == "None"

TagFromStr(name) ==
    CASE name = NameP -> "P"
      [] name = NameB -> "B"
      [] name = NameScript -> "SCRIPT"
      [] name = NameStyle -> "STYLE"
      [] OTHER -> NoTag

TagToString(t) ==
    CASE t = "P" -> NameP
      [] t = "B" -> NameB
      [] t = "SCRIPT" -> NameScript
      [] t = "STYLE" -> NameStyle

ToLowerChar(c) ==
    CASE c = "P" -> "p"
      [] c = "S" -> "s"
      [] c = "C" -> "c"
      [] c = "R" -> "r"
      [] c = "I" -> "i"
      [] c = "T" -> "t"
      [] OTHER -> c

to_lowercase(s) == [i \in 1..Len(s) |-> ToLowerChar(s[i])]

----------------------------------------------------------------------------
(* Attribute and ParserTag *)

Attribute(n, v) == [name |-> n, value |-> v]

Placeholder == Attribute(<<>>, <<>>)

is_boolean(a) == Len(a.value) = 0

InitTag == [name |-> <<>>, id |-> NoTag, closing |-> FALSE,
            data |-> <<>>, attributes |-> <<>>]

IsQuote(c) == c = "\"" \/ c = "'"

----------------------------------------------------------------------------
(* Handler callbacks (IsParser), recorded in call order *)

StartEvent(t, attrs) == [type |-> "start", tag |-> t, attributes |-> attrs]
EndEvent(t) == [type |-> "end", tag |-> t]
DataEvent(d) == [type |-> "data", data |-> d]

----------------------------------------------------------------------------
(* What one call of a state handler did: bytes processed, the tag          *)
(* accumulator and state it left, the callbacks it made, and the panic     *)
(* that ended it, if any.                                                  *)

NoPanic == "none"

HR(n, t, s, out, p) ==
    [processed |-> n, tag |-> t, state |-> s, out |-> out, panic |-> p]

----------------------------------------------------------------------------
(* _state_find_tag *)

ResetTag(t) ==
    [t EXCEPT !.name = <<>>, !.id = NoTag, !.data = <<>>, !.closing = FALSE]

RECURSIVE FindTagLoop(_, _, _)
FindTagLoop(b, t, i) ==
    IF i > Len(b) THEN HR(i - 1, t, "FindParserTag", <<>>, NoPanic)
    ELSE IF b[i] = "<"
         THEN HR(i - 1, ResetTag(t), "ReadParserTagName", <<>>, NoPanic)
         ELSE FindTagLoop(b, t, i + 1)

_state_find_tag(b, t) == FindTagLoop(b, t, 1)

----------------------------------------------------------------------------
(* _state_skip_comment *)

CommentEndState_FindTag == "FindParserTag"

\* the state a completed comment leaves
CommentEndState == "ReadData"

RECURSIVE SkipCommentLoop(_, _, _)
SkipCommentLoop(b, t, processed) ==
    IF processed + 3 > Len(b)
    THEN HR(processed, t, "SkipComment", <<>>, NoPanic)
    ELSE IF /\ b[processed + 1] = "-"
            /\ b[processed + 2] = "-"
            /\ b[processed + 3] = ">"
         THEN HR(processed + 3, t, CommentEndState, <<>>, NoPanic)
         ELSE SkipCommentLoop(b, t, processed + 1)

_state_skip_comment(b, t) == SkipCommentLoop(b, t, 0)

----------------------------------------------------------------------------
(* _state_read_tag_name *)

SeedAttributes(t) == [t EXCEPT !.attributes = <<Placeholder>>]

\* the '!' arm; processed already counts the '!', buf[processed] is the
\* byte after it (0-based), an index past the end panics
BangArm(b, t, processed) ==
    IF processed + 1 > Len(b)
    THEN HR(processed, t, "ReadParserTagName", <<>>, "IndexOutOfBounds")
    ELSE HR(processed, t,
            IF b[processed + 1] = "-" THEN "SkipComment" ELSE "FindParserTag",
            <<>>, NoPanic)

RECURSIVE ReadTagNameLoop(_, _, _)
ReadTagNameLoop(b, t, i) ==
    IF i > Len(b) THEN HR(i - 1, t, "ReadParserTagName", <<>>, NoPanic)
    ELSE CASE b[i] \in {"<", "\r", "\n"} -> ReadTagNameLoop(b, t, i + 1)
           [] b[i] = "!" -> BangArm(b, t, i)
           [] b[i] = "/" ->
                ReadTagNameLoop(b, [t EXCEPT !.closing = TRUE], i + 1)
           [] b[i] \in {">", " "} ->
                HR(i - 1, SeedAttributes(t), "ReadAttributeName", <<>>, NoPanic)
           [] OTHER ->
                ReadTagNameLoop(b, [t EXCEPT !.name = Append(@, b[i])], i + 1)

_state_read_tag_name(b, t) == ReadTagNameLoop(b, t, 1)

----------------------------------------------------------------------------
(* _is_element: "Err" | "True" | "False" *)

_is_element_AnyCase(b, el) ==
    IF el = NoTag THEN "False"
    ELSE LET n == TagToString(el) IN
         IF Len(b) < Len(n) + 3 THEN "Err"
         ELSE LET cmp == IF b[2] = "/" THEN SubSeq(b, 3, 2 + Len(n))
                         ELSE SubSeq(b, 1, Len(n))
              IN  IF n = to_lowercase(cmp) THEN "True" ELSE "False"

_is_element(b, el) ==
    IF el = NoTag THEN "False"
    ELSE LET n == TagToString(el) IN
         IF Len(b) < Len(n) + 3 THEN "Err"
         ELSE LET cmp == IF b[2] = "/" THEN SubSeq(b, 3, 2 + Len(n))
                         ELSE SubSeq(b, 1, Len(n))
              IN  IF n = cmp THEN "True" ELSE "False"

----------------------------------------------------------------------------
(* _state_read_data *)

EmitData_Always(t) == <<DataEvent(t.data)>>

EmitData(t) == IF Len(t.data) > 0 THEN <<DataEvent(t.data)>> ELSE <<>>

RECURSIVE ReadDataLoop(_, _, _)
ReadDataLoop(b, t, i) ==
    IF i > Len(b) THEN HR(i - 1, t, "ReadData", <<>>, NoPanic)
    ELSE IF b[i] = "<"
         THEN HR(i - 1, t, "FindParserTag", EmitData(t), NoPanic)
         ELSE ReadDataLoop(b, [t EXCEPT !.data = Append(@, b[i])], i + 1)

_state_read_data(b, t) == ReadDataLoop(b, t, 1)

----------------------------------------------------------------------------
(* _state_read_raw_data *)

RECURSIVE ReadRawDataLoop(_, _, _)
ReadRawDataLoop(b, t, i) ==
    IF i > Len(b) THEN HR(i - 1, t, "ReadRawData", <<>>, NoPanic)
    ELSE IF b[i] = "<"
         THEN LET x == _is_element(Drop(b, i - 1), t.id) IN
              CASE x = "Err" -> HR(i - 1, t, "ReadRawData", <<>>, NoPanic)
                [] x = "True" ->
                     HR(i - 1, t, "FindParserTag", EmitData(t), NoPanic)
                [] OTHER ->
                     ReadRawDataLoop(b, [t EXCEPT !.data = Append(@, b[i])],
                                     i + 1)
         ELSE ReadRawDataLoop(b, [t EXCEPT !.data = Append(@, b[i])], i + 1)

_state_read_raw_data(b, t) == ReadRawDataLoop(b, t, 1)

----------------------------------------------------------------------------
(* The '>' arms: the tag is complete *)

PopPlaceholder_Never(attrs) == attrs

\* "pop last attribute if it is an empty placeholder", in ReadAttributeName
PopPlaceholder(attrs) ==
    IF Last(attrs).name = <<>> THEN Front(attrs) ELSE attrs

\* the same, in ReadAttributeValue
PopPlaceholderInValue(attrs) ==
    IF Last(attrs).name = <<>> THEN Front(attrs) ELSE attrs

\* state after the start-tag callback, as decided in ReadAttributeName
NameStateAfterStart(id) ==
    IF id = "SCRIPT" THEN "ReadRawData" ELSE "ReadData"

\* state after the start-tag callback, as decided in ReadAttributeValue
ValueStateAfterStart(id) ==
    IF id \in {"SCRIPT", "STYLE"} THEN "ReadRawData" ELSE "ReadData"

\* ReadAttributeName, '>' | '/'
FinishInName(t, processed) ==
    IF t.attributes = <<>>
    THEN HR(processed, t, "ReadAttributeName", <<>>, "UnwrapNone")
    ELSE LET attrs == PopPlaceholder(t.attributes)
             id == TagFromStr(to_lowercase(t.name))
             t1 == [t EXCEPT !.attributes = attrs, !.id = id]
         IN  IF id = NoTag
             THEN HR(processed, [t EXCEPT !.attributes = attrs],
                     "ReadAttributeName", <<>>, "UnknownTag")
             ELSE IF t.closing
                  THEN HR(processed, t1, "ReadData", <<EndEvent(id)>>, NoPanic)
                  ELSE HR(processed, t1, NameStateAfterStart(id),
                          <<StartEvent(id, attrs)>>, NoPanic)

\* ReadAttributeValue, '>'
FinishInValue(t, processed) ==
    IF t.attributes = <<>>
    THEN HR(processed, t, "ReadAttributeValue", <<>>, "UnwrapNone")
    ELSE LET attrs == PopPlaceholderInValue(t.attributes)
             id == TagFromStr(to_lowercase(t.name))
             t1 == [t EXCEPT !.attributes = <<>>, !.id = id]
         IN  IF id = NoTag
             THEN HR(processed, [t EXCEPT !.attributes = attrs],
                     "ReadAttributeValue", <<>>, "UnknownTag")
             ELSE IF t.closing
                  THEN HR(processed, t1, "ReadData", <<EndEvent(id)>>, NoPanic)
                  ELSE HR(processed, t1, ValueStateAfterStart(id),
                          <<StartEvent(id, attrs)>>, NoPanic)

----------------------------------------------------------------------------
(* _state_read_attribute_value *)

PushValue(t, c) ==
    [t EXCEPT !.attributes[Len(t.attributes)].value = Append(@, c)]

PushPlaceholder(t) == [t EXCEPT !.attributes = Append(@, Placeholder)]

\* Trim " and ' from attribute value
TrimQuotes(v) ==
    LET v1 == IF Len(v) # 0 /\ IsQuote(v[1]) THEN Tail(v) ELSE v
    IN  IF Len(v1) # 0 /\ IsQuote(Last(v1)) THEN Front(v1) ELSE v1

TrimLastValue(t) ==
    [t EXCEPT !.attributes[Len(t.attributes)].value = TrimQuotes(@)]

RECURSIVE ReadAttributeValueLoop(_, _, _)
ReadAttributeValueLoop(b, t, i) ==
    IF i > Len(b) THEN HR(i - 1, t, "ReadAttributeValue", <<>>, NoPanic)
    ELSE IF b[i] = ">" THEN FinishInValue(t, i)
    ELSE IF t.attributes = <<>>
         THEN HR(i - 1, t, "ReadAttributeValue", <<>>, "UnwrapNone")
    ELSE LET value == Last(t.attributes).value IN
         CASE IsQuote(b[i]) ->
                IF value # <<>>
                THEN HR(i, PushPlaceholder(TrimLastValue(t)),
                        "ReadAttributeName", <<>>, NoPanic)
                ELSE ReadAttributeValueLoop(b, PushValue(t, b[i]), i + 1)
           [] b[i] = " " ->
                IF value # <<>> /\ ~IsQuote(value[1])
                THEN HR(i, PushPlaceholder(t), "ReadAttributeName", <<>>,
                        NoPanic)
                ELSE ReadAttributeValueLoop(b, PushValue(t, b[i]), i + 1)
           [] OTHER -> ReadAttributeValueLoop(b, PushValue(t, b[i]), i + 1)

_state_read_attribute_value(b, t) == ReadAttributeValueLoop(b, t, 1)

----------------------------------------------------------------------------
(* _state_read_attribute_name *)

PushName(t, c) ==
    [t EXCEPT !.attributes[Len(t.attributes)].name = Append(@, c)]

RECURSIVE ReadAttributeNameLoop(_, _, _)
ReadAttributeNameLoop(b, t, i) ==
    IF i > Len(b) THEN HR(i - 1, t, "ReadAttributeName", <<>>, NoPanic)
    ELSE IF b[i] \in {">", "/"} THEN FinishInName(t, i)
    ELSE IF b[i] = "="
         THEN HR(i, t, "ReadAttributeValue", <<>>, NoPanic)
    ELSE IF b[i] \in {"\n", "\r", "\t"}
         THEN ReadAttributeNameLoop(b, t, i + 1)
    ELSE IF t.attributes = <<>>
         THEN HR(i - 1, t, "ReadAttributeName", <<>>, "UnwrapNone")
    ELSE IF b[i] = " "
         THEN IF Last(t.attributes).name # <<>>
              THEN ReadAttributeNameLoop(b, PushPlaceholder(t), i + 1)
              ELSE ReadAttributeNameLoop(b, t, i + 1)
    ELSE ReadAttributeNameLoop(b, PushName(t, b[i]), i + 1)

_state_read_attribute_name(b, t) == ReadAttributeNameLoop(b, t, 1)

----------------------------------------------------------------------------
(* Store and Dom (dom.rs).  An Option is a sequence of length 0 or 1; a    *)
(* NodeId n names slot n + 1 of nodes.                                     *)

ROOT_NODE_ID == 0

None == <<>>
Some(x) == <<x>>
Unwrap(o) == o[1]

Node(id, parent, children, data) ==
    [id |-> id, parent |-> parent, children |-> children, data |-> data]

NodeElement(t, attrs) == [kind |-> "Element", tag |-> t, attributes |-> attrs]
NodeText(text) == [kind |-> "Data", text |-> text]

\* Store::new
StoreNew == << Some(Node(0, None, <<>>, None)) >>

\* Store::is_node
is_node(nodes, id) == id <= Len(nodes) - 1 /\ nodes[id + 1] # None

add_KeepsIdZero(nodes, node) ==
    LET pushed == Append(nodes, Some(node))
        id == Len(pushed) - 1
        parent == Unwrap(node.parent)
    IN  [nodes |-> [pushed EXCEPT ![parent + 1] =
                      Some([Unwrap(@) EXCEPT !.children = Append(@, id)])],
         id |-> Some(id)]

add_LinksRoot(nodes, node) ==
    LET pushed == Append(nodes, Some(node))
        id == Len(pushed) - 1
        linked == [pushed EXCEPT ![ROOT_NODE_ID + 1] =
                      Some([Unwrap(@) EXCEPT !.children = Append(@, id)])]
    IN  [nodes |-> [linked EXCEPT ![id + 1] = Some([Unwrap(@) EXCEPT !.id = id])],
         id |-> Some(id)]

\* Store::add
add(nodes, node) ==
    LET pushed == Append(nodes, Some(node))
        id == Len(pushed) - 1
        parent == Unwrap(node.parent)
        linked == [pushed EXCEPT ![parent + 1] =
                      Some([Unwrap(@) EXCEPT !.children = Append(@, id)])]
    IN  [nodes |-> [linked EXCEPT ![id + 1] = Some([Unwrap(@) EXCEPT !.id = id])],
         id |-> Some(id)]

new_node_with_parent_PushFirst(nodes, parent) ==
    IF ~is_node(nodes, parent)
    THEN [nodes |-> Append(nodes, None), id |-> None]
    ELSE add(nodes, Node(0, Some(parent), <<>>, None))

\* Store::new_node_with_parent; id = None is Err(())
new_node_with_parent(nodes, parent) ==
    IF ~is_node(nodes, parent)
    THEN [nodes |-> nodes, id |-> None]
    ELSE add(nodes, Node(0, Some(parent), <<>>, None))

\* Dom::new
DomNew == [store |-> StoreNew, current |-> None, panic |-> NoPanic]

InsertionParent(dom) ==
    IF dom.current = None THEN ROOT_NODE_ID ELSE Unwrap(dom.current)

SetData(nodes, id, data) ==
    [nodes EXCEPT ![id + 1] = Some([Unwrap(@) EXCEPT !.data = Some(data)])]

\* Dom::handle_starttag
handle_starttag(dom, t, attrs) ==
    LET r == new_node_with_parent(dom.store, InsertionParent(dom)) IN
    IF r.id = None THEN [dom EXCEPT !.panic = "UnwrapErr"]
    ELSE [dom EXCEPT !.store = SetData(r.nodes, Unwrap(r.id),
                                       NodeElement(t, attrs)),
                     !.current = r.id]

\* Dom::handle_endtag
handle_endtag(dom, t) ==
    IF dom.current = None \/ dom.store[Unwrap(dom.current) + 1] = None
    THEN [dom EXCEPT !.panic = "UnwrapNone"]
    ELSE [dom EXCEPT !.current = Unwrap(dom.store[Unwrap(@) + 1]).parent]

handle_data_MovesCursor(dom, data) ==
    LET r == new_node_with_parent(dom.store, InsertionParent(dom)) IN
    IF r.id = None THEN [dom EXCEPT !.panic = "UnwrapErr"]
    ELSE [dom EXCEPT !.store = SetData(r.nodes, Unwrap(r.id), NodeText(data)),
                     !.current = r.id]

\* Dom::handle_data
handle_data(dom, data) ==
    LET r == new_node_with_parent(dom.store, InsertionParent(dom)) IN
    IF r.id = None THEN [dom EXCEPT !.panic = "UnwrapErr"]
    ELSE [dom EXCEPT !.store = SetData(r.nodes, Unwrap(r.id), NodeText(data))]

\* the Dom as the parser's handler: one callback
Handle(dom, e) ==
    IF dom.panic # NoPanic THEN dom
    ELSE CASE e.type = "start" -> handle_starttag(dom, e.tag, e.attributes)
           [] e.type = "end" -> handle_endtag(dom, e.tag)
           [] e.type = "data" -> handle_data(dom, e.data)

RECURSIVE HandleAll(_, _)
HandleAll(dom, es) ==
    IF es = <<>> THEN dom ELSE HandleAll(Handle(dom, Head(es)), Tail(es))

\* Attribute::to_html
AttributeToHTML(a) ==
    IF is_boolean(a) THEN a.name
    ELSE a.name \o <<"=", "\"">> \o a.value \o <<"\"">>

RECURSIVE AttributesToHTML(_)
AttributesToHTML(attrs) ==
    IF attrs = <<>> THEN <<>>
    ELSE <<" ">> \o AttributeToHTML(Head(attrs)) \o AttributesToHTML(Tail(attrs))

\* NodeElement::to_html, NodeData::to_html
NodeDataToHTML(d) ==
    IF d.kind = "Element"
    THEN <<"<">> \o TagToString(d.tag) \o AttributesToHTML(d.attributes)
         \o <<">">>
    ELSE d.text

LeaveHTML_Nothing(d) == <<>>

\* the leave closure of Store::to_html
LeaveHTML(d) ==
    IF d.kind = "Element"
    THEN <<"<", "/">> \o TagToString(d.tag) \o <<">">>
    ELSE <<>>

\* Store::_recurse_with_output over the children cs of one node
RECURSIVE RecurseWithOutput(_, _)
RecurseWithOutput(nodes, cs) ==
    IF cs = <<>> THEN [html |-> <<>>, panic |-> NoPanic]
    ELSE LET slot == nodes[Head(cs) + 1] IN
         IF slot = None \/ Unwrap(slot).data = None
         THEN [html |-> <<>>, panic |-> "UnwrapNone"]
         ELSE LET node == Unwrap(slot)
                  inner == RecurseWithOutput(nodes, node.children)
                  rest == RecurseWithOutput(nodes, Tail(cs))
              IN  IF inner.panic # NoPanic
                  THEN [html |-> NodeDataToHTML(Unwrap(node.data)) \o inner.html,
                        panic |-> inner.panic]
                  ELSE [html |-> NodeDataToHTML(Unwrap(node.data))
                                 \o inner.html
                                 \o LeaveHTML(Unwrap(node.data))
                                 \o rest.html,
                        panic |-> rest.panic]

\* impl ToHTML for Store
to_html(nodes) ==
    IF nodes[ROOT_NODE_ID + 1] = None
    THEN [html |-> <<>>, panic |-> NoPanic]
    ELSE RecurseWithOutput(nodes, Unwrap(nodes[ROOT_NODE_ID + 1]).children)

\* Store::len
StoreLen(nodes) == Cardinality({ i \in 1..Len(nodes) : nodes[i] # None })

\* Dom::len
DomLen(dom) == StoreLen(dom.store) - 1

\* Store::_recurse_remove_node: the subtree of id, children before parents;
\* a tombstoned id is pushed as it is
RECURSIVE RecurseRemoveNode(_, _)
RECURSIVE RecurseRemoveChildren(_, _)
RecurseRemoveNode(nodes, id) ==
    IF nodes[id + 1] = None THEN <<id>>
    ELSE RecurseRemoveChildren(nodes, Unwrap(nodes[id + 1]).children) \o <<id>>

RecurseRemoveChildren(nodes, cs) ==
    IF cs = <<>> THEN <<>>
    ELSE RecurseRemoveNode(nodes, Head(cs)) \o RecurseRemoveChildren(nodes, Tail(cs))

\* parent.children.retain(|&x| x != *nid)
WithoutChild(children, nid) == SelectSeq(children, LAMBDA x : x # nid)

\* the loop of Store::remove over the collected ids
RECURSIVE RemoveEach(_, _)
RemoveEach(nodes, ids) ==
    IF ids = <<>> THEN [nodes |-> nodes, panic |-> NoPanic]
    ELSE LET nid == Head(ids) IN
         IF nodes[nid + 1] = None \/ Unwrap(nodes[nid + 1]).parent = None
         THEN [nodes |-> nodes, panic |-> "UnwrapNone"]
         ELSE LET parent_id == Unwrap(Unwrap(nodes[nid + 1]).parent) IN
              IF nodes[parent_id + 1] = None
              THEN [nodes |-> nodes, panic |-> "UnwrapNone"]
              ELSE RemoveEach(
                     [nodes EXCEPT
                        ![parent_id + 1] =
                            Some([Unwrap(@) EXCEPT
                                    !.children = WithoutChild(@, nid)]),
                        ![nid + 1] = None],
                     Tail(ids))

RECURSIVE DropTrailingNone(_)
DropTrailingNone(nodes) ==
    IF Len(nodes) > 1 /\ Last(nodes) = None
    THEN DropTrailingNone(Front(nodes)) ELSE nodes

remove_KeepsLink(nodes, id) ==
    IF ~is_node(nodes, id) THEN [nodes |-> nodes, panic |-> NoPanic]
    ELSE LET ids == RecurseRemoveNode(nodes, id)
             gone == { ids[k] : k \in 1..Len(ids) }
         IN  [nodes |-> [i \in 1..Len(nodes) |->
                            IF (i - 1) \in gone THEN None ELSE nodes[i]],
              panic |-> NoPanic]

remove_Compacts(nodes, id) ==
    IF ~is_node(nodes, id) THEN [nodes |-> nodes, panic |-> NoPanic]
    ELSE LET r == RemoveEach(nodes, RecurseRemoveNode(nodes, id))
         IN  [r EXCEPT !.nodes = DropTrailingNone(@)]

remove_NotCascading(nodes, id) ==
    IF ~is_node(nodes, id) THEN [nodes |-> nodes, panic |-> NoPanic]
    ELSE RemoveEach(nodes, <<id>>)

remove_RangeOnly(nodes, id) ==
    IF id > Len(nodes) - 1 THEN [nodes |-> nodes, panic |-> NoPanic]
    ELSE RemoveEach(nodes, RecurseRemoveNode(nodes, id))

\* Store::remove
remove(nodes, id) ==
    IF ~is_node(nodes, id) THEN [nodes |-> nodes, panic |-> NoPanic]
    ELSE RemoveEach(nodes, RecurseRemoveNode(nodes, id))

\* Store::_recurse over the children cs of one node: the calls of enter, in
\* order, as <<id, level>>
RECURSIVE RecurseChildren(_, _, _)
RecurseChildren(nodes, cs, level) ==
    IF cs = <<>> THEN <<>>
    ELSE LET cid == Head(cs)
             below == IF nodes[cid + 1] = None THEN <<>>
                      ELSE RecurseChildren(nodes, Unwrap(nodes[cid + 1]).children,
                                           level + 1)
         IN  << <<cid, level>> >> \o below
             \o RecurseChildren(nodes, Tail(cs), level)

recurse_TopOnly(nodes, id) ==
    IF is_node(nodes, id)
    THEN [i \in 1..Len(Unwrap(nodes[id + 1]).children) |->
            <<Unwrap(nodes[id + 1]).children[i], 0>>]
    ELSE <<>>

recurse_WithSelf(nodes, id) ==
    IF is_node(nodes, id)
    THEN << <<id, 0>> >>
         \o RecurseChildren(nodes, Unwrap(nodes[id + 1]).children, 0)
    ELSE <<>>

recurse_FromOne(nodes, id) ==
    IF is_node(nodes, id)
    THEN RecurseChildren(nodes, Unwrap(nodes[id + 1]).children, 1)
    ELSE <<>>

\* Store::recurse
recurse(nodes, id) ==
    IF is_node(nodes, id)
    THEN RecurseChildren(nodes, Unwrap(nodes[id + 1]).children, 0)
    ELSE <<>>

\* the second pass of Store::retain: remove every collected id in turn
RECURSIVE RemoveAll(_, _)
RemoveAll(nodes, ids) ==
    IF ids = <<>> THEN [nodes |-> nodes, panic |-> NoPanic]
    ELSE LET r == remove(nodes, Head(ids)) IN
         IF r.panic # NoPanic THEN r ELSE RemoveAll(r.nodes, Tail(ids))

\* Store::retain; the predicate keep is the set of ids it answers true for
retain(nodes, keep) ==
    LET visits == recurse(nodes, ROOT_NODE_ID)
        visited == [i \in 1..Len(visits) |-> visits[i][1]]
    IN  IF \E i \in 1..Len(visited) : nodes[visited[i] + 1] = None
        THEN [nodes |-> nodes, panic |-> "UnwrapNone", visited |-> visited]
        ELSE LET r == RemoveAll(nodes,
                                SelectSeq(visited, LAMBDA id : id \notin keep))
             IN  [nodes |-> r.nodes, panic |-> r.panic, visited |-> visited]

----------------------------------------------------------------------------
(* A Dom, and the Store inside it, used on their own.                      *)

MaxNodes == 3

\* the slots of a store that hold a node, as ids
Live(nodes) == { i \in 0..(Len(nodes) - 1) : nodes[i + 1] # None }

NoOp == [name |-> "none", id |-> 0, keep |-> {}, ret |-> None,
         visited |-> <<>>, arg |-> None]

OpOn(name, id, ret) ==
    [name |-> name, id |-> id, keep |-> {}, ret |-> ret, visited |-> <<>>,
     arg |-> None]

OpRetain(keep, visited) ==
    [name |-> "retain", id |-> 0, keep |-> keep, ret |-> None,
     visited |-> visited, arg |-> None]

\* a handler callback: the insertion parent it found, the id it created and
\* the tag and attributes, the tag, or the text it was given
OpHandle(name, dom, d, arg) ==
    [OpOn(name, InsertionParent(dom),
          IF d.panic # NoPanic \/ Len(d.store) = Len(dom.store) THEN None
          ELSE Some(Len(d.store) - 1))
     EXCEPT !.arg = Some(arg)]

\* ids: every id an insertion returned, in order; retained: a removal or a
\* retain has been made; data: the payloads inserted, and those of the
\* events handled, before the first of those
DomInit ==
    /\ temp_dom = DomNew
    /\ op = NoOp
    /\ hist = [ids |-> <<>>, data |-> <<>>, retained |-> FALSE]

Inserted(r, data) ==
    IF r.id = None THEN hist
    ELSE [hist EXCEPT !.ids = Append(@, Unwrap(r.id)),
                      !.data = IF hist.retained THEN @ ELSE Append(@, data)]

Removed == [hist EXCEPT !.retained = TRUE, !.data = <<>>]

Payloads == { NodeElement("P", <<>>), NodeText(<<"x">>) }

\* store.new_node_with_parent(parent), and the payload its caller stores
StoreNewNode ==
    /\ temp_dom.panic = NoPanic
    /\ \E parent \in 0..(MaxNodes + 1), data \in Payloads :
          LET r == new_node_with_parent(temp_dom.store, parent) IN
          /\ Len(r.nodes) - 1 <= MaxNodes
          /\ temp_dom' = [temp_dom EXCEPT !.store =
                        IF r.id = None THEN r.nodes
                        ELSE SetData(r.nodes, Unwrap(r.id), data)]
          /\ op' = OpOn("new_node_with_parent", parent, r.id)
          /\ hist' = Inserted(r, data)
    /\ UNCHANGED pvars

\* store.remove(id)
StoreRemove ==
    /\ temp_dom.panic = NoPanic
    /\ \E id \in 0..(MaxNodes + 1) :
          LET r == remove(temp_dom.store, id) IN
          /\ temp_dom' = [temp_dom EXCEPT !.store = r.nodes,
                                           !.panic = r.panic]
          /\ op' = [OpOn("remove", id, None) EXCEPT !.visited =
                        IF is_node(temp_dom.store, id)
                        THEN RecurseRemoveNode(temp_dom.store, id) ELSE <<>>]
    /\ hist' = Removed
    /\ UNCHANGED pvars

\* store.recurse(id, enter): op.visited holds the calls of enter, in order,
\* each as <<id, level>>
StoreRecurse ==
    /\ temp_dom.panic = NoPanic
    /\ \E id \in 0..(MaxNodes + 1) :
          op' = [OpOn("recurse", id, None) EXCEPT !.visited =
                    recurse(temp_dom.store, id)]
    /\ UNCHANGED <<temp_dom, hist, pvars>>

DomTags == { "P", "B" }
DomElements ==
    { NodeElement("P", <<>>),
      NodeElement("B", << Attribute(<<"c">>, <<"x">>) >>) }
DomTexts == { <<"x">> }

\* what a handled start-tag or data event adds to hist
Handled(d, data) ==
    [hist EXCEPT !.data = IF hist.retained THEN @ ELSE Append(@, data),
                 !.ids = IF d.panic # NoPanic THEN @
                         ELSE Append(@, Len(d.store) - 1)]

\* dom.handle_starttag(tag, attributes)
HandleStart ==
    /\ temp_dom.panic = NoPanic
    /\ Len(temp_dom.store) - 1 < MaxNodes
    /\ \E e \in DomElements :
          LET d == handle_starttag(temp_dom, e.tag, e.attributes) IN
          /\ temp_dom' = d
          /\ op' = OpHandle("handle_starttag", temp_dom, d, e)
          /\ hist' = Handled(d, e)
    /\ UNCHANGED pvars

\* dom.handle_endtag(tag)
HandleEnd ==
    /\ temp_dom.panic = NoPanic
    /\ \E t \in DomTags :
          LET d == handle_endtag(temp_dom, t) IN
          /\ temp_dom' = d
          /\ op' = OpHandle("handle_endtag", temp_dom, d, t)
    /\ UNCHANGED <<hist, pvars>>

\* dom.handle_data(data)
HandleData ==
    /\ temp_dom.panic = NoPanic
    /\ Len(temp_dom.store) - 1 < MaxNodes
    /\ \E text \in DomTexts :
          LET d == handle_data(temp_dom, text) IN
          /\ temp_dom' = d
          /\ op' = OpHandle("handle_data", temp_dom, d, NodeText(text))
          /\ hist' = Handled(d, NodeText(text))
    /\ UNCHANGED pvars

\* store.retain(keep), Dom::retain
Retain ==
    /\ temp_dom.panic = NoPanic
    /\ \E keep \in SUBSET (Live(temp_dom.store) \ {ROOT_NODE_ID}) :
          LET r == retain(temp_dom.store, keep) IN
          /\ temp_dom' = [temp_dom EXCEPT !.store = r.nodes,
                                           !.panic = r.panic]
          /\ op' = OpRetain(keep, r.visited)
    /\ hist' = Removed
    /\ UNCHANGED pvars

----------------------------------------------------------------------------
(* The documents the byte source may hold.  The source hands out any       *)
(* prefix of any of them (a truncated document is a document), split into  *)
(* reads at any byte, optionally followed by up to MaxJunk stray markup    *)
(* bytes (JunkBytes).                                                      *)

MaxText == 2
MaxJunk == 1

RECURSIVE Run(_, _)
Run(c, n) == IF n = 0 THEN <<>> ELSE <<c>> \o Run(c, n - 1)

Texts == { Run("x", n) : n \in 1..MaxText }

Open(n, attrs) == <<"<">> \o n \o attrs \o <<">">>
Close(n) == <<"<", "/">> \o n \o <<">">>
Comment(c) == <<"<", "!", "-", "-">> \o c \o <<"-", "-", ">">>
Element(n, attrs, content) == Open(n, attrs) \o content \o Close(n)

\* a comment between two text runs inside an element
CommentBodies ==
    { <<>>, <<"y">>, <<" ", "y", " ">>, <<"<", "b", ">">>, <<"-">> }

CommentDoc(before, c, after) ==
    Element(NameP, <<>>, before \o Comment(c) \o after)

AfterTexts == { Run("z", n) : n \in 1..MaxText }

CommentDocs ==
    { CommentDoc(x, c, z) : x \in Texts, c \in CommentBodies, z \in AfterTexts }

\* raw-text elements whose start tag ends in each of the two '>' arms; the
\* content holds '<' bytes but nowhere "</" followed by the element's name
RawOpens ==
    { [tag |-> "SCRIPT", attrs |-> <<>>, parsed |-> <<>>],
      [tag |-> "SCRIPT", attrs |-> <<" ", "a", "=", "x">>,
       parsed |-> <<Attribute(<<"a">>, <<"x">>)>>],
      [tag |-> "STYLE", attrs |-> <<" ", "a", "=", "x">>,
       parsed |-> <<Attribute(<<"a">>, <<"x">>)>>] }

RawContents ==
    { <<"x">>, <<"a", "<", "b">>, <<"<">>, <<"<", "<", "/">>,
      <<"<", "/", "S", "C", "R", "I", "P", "T", ">">> }

RawDoc(o, c) == Element(TagToString(o.tag), o.attrs, c)

RawDocs == { RawDoc(o, c) : o \in RawOpens, c \in RawContents }

\* start tags of p with up to two attributes, boolean or valued
AttrForms ==
    { [name |-> <<"a">>, value |-> <<>>, src |-> <<"a">>],
      [name |-> <<"b">>, value |-> <<>>, src |-> <<"b">>],
      [name |-> <<"c">>, value |-> <<"x">>, src |-> <<"c", "=", "x">>],
      [name |-> <<"c">>, value |-> <<"x">>,
       src |-> <<"c", "=", "\"", "x", "\"">>] }

AttrLists == UNION { [1..k -> AttrForms] : k \in 1..2 }

RECURSIVE AttrSrc(_)
AttrSrc(l) == IF l = <<>> THEN <<>> ELSE <<" ">> \o Head(l).src \o AttrSrc(Tail(l))

AttrDoc(l, trail) == Open(NameP, AttrSrc(l) \o trail)

AttrDocs == { AttrDoc(l, trail) : l \in AttrLists, trail \in {<<>>, <<" ">>} }

\* tag names the enumeration does not know, completed in either '>' arm
UnknownDocs ==
    { <<"<", "z", ">">>,
      <<"<", "z", " ", "a", "=", "x", ">">>,
      <<"<", "p", ">", "x", "<", "/", "z", ">">>,
      <<"<", ">">> }

\* well-formed documents: every element closed and nested, text inside
\* elements, attribute values double-quoted or absent
QuotedForms ==
    { [name |-> <<"a">>, value |-> <<>>, src |-> <<"a">>],
      [name |-> <<"c">>, value |-> <<"x">>,
       src |-> <<"c", "=", "\"", "x", "\"">>],
      [name |-> <<"c">>, value |-> <<"x", " ", "y">>,
       src |-> <<"c", "=", "\"", "x", " ", "y", "\"">>],
      [name |-> <<"c">>, value |-> <<"x", "'", "y">>,
       src |-> <<"c", "=", "\"", "x", "'", "y", "\"">>] }

QuotedLists == UNION { [1..k -> QuotedForms] : k \in 0..2 }

WellFormedDocs ==
    { Element(NameP, AttrSrc(l), x) : l \in QuotedLists, x \in Texts }
    \cup { Element(NameP, <<>>, Element(NameB, <<>>, x) \o <<"y">>) : x \in Texts }
    \cup { Element(NameP, <<>>, x \o Element(NameB, <<>>, <<"y">>)) : x \in Texts }
    \cup { Element(n, <<>>, c) : n \in {NameScript, NameStyle},
                                c \in {<<"x">>, <<"a", "<", "b">>} }

\* start tags of p whose first attribute value meets a space: inside double
\* or single quotes, right after the opening quote, after '=', after an
\* unquoted value, and inside quotes that also hold the other quote
SpaceForms ==
    { [name |-> <<"c">>, value |-> <<"x", " ", "y">>,
       src |-> <<"c", "=", "\"", "x", " ", "y", "\"">>],
      [name |-> <<"c">>, value |-> <<"x", " ", "y">>,
       src |-> <<"c", "=", "'", "x", " ", "y", "'">>],
      [name |-> <<"c">>, value |-> <<" ", "x">>,
       src |-> <<"c", "=", "'", " ", "x", "'">>],
      [name |-> <<"c">>, value |-> <<" ", "x">>,
       src |-> <<"c", "=", " ", "x">>],
      [name |-> <<"c">>, value |-> <<"x">>, src |-> <<"c", "=", "x">>],
      [name |-> <<"c">>, value |-> <<"x", "'", " ", "y">>,
       src |-> <<"c", "=", "\"", "x", "'", " ", "y", "\"">>] }

SpaceNext == [name |-> <<"d">>, value |-> <<"y">>, src |-> <<"d", "=", "y">>]

SpaceLists == { <<f>> \o r : f \in SpaceForms, r \in {<<>>, <<SpaceNext>>} }

SpaceDoc(l) == Open(NameP, AttrSrc(l))

SpaceDocs == { SpaceDoc(l) : l \in SpaceLists }

\* elements whose start tag holds a '/' before its '>' ("<p/>", "<p />")
SelfClosingDocs ==
    { Element(NameP, s, <<"x">>) : s \in { <<"/">>, <<" ", "/">> } }

\* start tags with an '=' that follows no name, and an element with
\* attributes holding another start tag
StrayEqualsDocs ==
    { Open(NameP, <<" ", "=", "x">>),
      Open(NameP, <<" ", "=", "x", " ", "y">>),
      Open(NameP, <<" ", "a", " ", "=", "x">>),
      Open(NameP, <<" ", "a", "=", "x">>) \o Open(NameB, <<>>) \o <<"x">>
          \o Close(NameB),
      Open(NameP, <<" ", "a">>) \o Open(NameB, <<" ", "b">>) }

Docs ==
    CommentDocs \cup RawDocs \cup AttrDocs \cup UnknownDocs \cup WellFormedDocs
    \cup SpaceDocs \cup SelfClosingDocs \cup StrayEqualsDocs

JunkBytes == { "<", ">" }

JunkSeqs(n) == UNION { [1..k -> JunkBytes] : k \in 0..n }

\* what a read may append to the bytes d handed out so far
DocParts(d) ==
    UNION { { SubSeq(doc, Len(d) + 1, k) : k \in Len(d)..Len(doc) } :
            doc \in { x \in Docs : IsPrefix(d, x) } }

\* how many of the bytes d lie after the longest document prefix
JunkLen(d) ==
    LET fits == { k \in 0..Len(d) :
                    \E doc \in Docs : IsPrefix(SubSeq(d, 1, k), doc) }
    IN  Len(d) - (CHOOSE k \in fits : \A m \in fits : m <= k)

Chunks(d) ==
    LET j == JunkLen(d) IN
    { c \in { dp \o jp : dp \in (IF j = 0 THEN DocParts(d) ELSE {<<>>}),
                         jp \in JunkSeqs(MaxJunk - j) } : c # <<>> }

----------------------------------------------------------------------------
(* Parser::parse *)

LowWater == 64
BlockSize == 2048

Running == [kind |-> "Running", count |-> {}, why |-> "none"]
Ok(n) == [kind |-> "Ok", count |-> {n}, why |-> "none"]
Err(e) == [kind |-> "Err", count |-> {}, why |-> e]
Panic(p) == [kind |-> "Panic", count |-> {}, why |-> p]

\* the locals of parse before its loop
ParseInit ==
    /\ delivered = <<>>
    /\ buf = <<>>
    /\ end_of_file = FALSE
    /\ state = "FindParserTag"
    /\ tag = InitTag
    /\ total_parsed = 0
    /\ events = <<>>
    /\ tag_start = 0
    /\ pc = "outer"
    /\ result = Running

Init == ParseInit /\ DomInit

\* "Break out of loop if buffer is empty", else enter the inner loop
AfterRefill(b) ==
    IF Len(b) = 0
    THEN pc' = "returned" /\ result' = Ok(total_parsed)
    ELSE pc' = "inner" /\ UNCHANGED result

WantsRead_IgnoresEof == Len(buf) < LowWater

\* "If buffer is low and there is still data to be read, read block"
WantsRead == ~end_of_file /\ Len(buf) < LowWater

\* source.read returned Ok(n), n > 0
ReadChunk ==
    /\ pc = "outer"
    /\ WantsRead
    /\ \E c \in Chunks(delivered) :
          /\ Len(c) <= BlockSize
          /\ delivered' = delivered \o c
          /\ buf' = buf \o c
          /\ AfterRefill(buf')
    /\ UNCHANGED <<end_of_file, state, tag, total_parsed, events, tag_start>>
    /\ UNCHANGED dvars

\* source.read returned Ok(0)
ReadEof ==
    /\ pc = "outer"
    /\ WantsRead
    /\ end_of_file' = TRUE
    /\ AfterRefill(buf)
    /\ UNCHANGED <<delivered, buf, state, tag, total_parsed, events,
                   tag_start>>
    /\ UNCHANGED dvars

\* source.read returned Err(x)
ReadFail ==
    /\ pc = "outer"
    /\ WantsRead
    /\ pc' = "returned"
    /\ result' = Err("IoError")
    /\ UNCHANGED <<delivered, buf, end_of_file, state, tag,
                   total_parsed, events, tag_start>>
    /\ UNCHANGED dvars

\* the source is exhausted or the buffer is not low: no read
SkipRead ==
    /\ pc = "outer"
    /\ ~WantsRead
    /\ AfterRefill(buf)
    /\ UNCHANGED <<delivered, buf, end_of_file, state, tag,
                   total_parsed, events, tag_start>>
    /\ UNCHANGED dvars

Advance_CountsOne(b, total, processed) ==
    [buf |-> Drop(b, processed), total |-> total + 1]

\* buf.drain(..processed); total_parsed += processed
Advance(b, total, processed) ==
    [buf |-> Drop(b, processed), total |-> total + processed]

\* one pass of the inner loop, h being what the state's handler did
Inner(h) ==
    /\ events' = events \o h.out
    /\ tag_start' = IF state = "FindParserTag" /\ h.state = "ReadParserTagName"
                    THEN total_parsed + h.processed
                    ELSE tag_start
    /\ IF h.panic # NoPanic
       THEN /\ pc' = "aborted"
            /\ result' = Panic(h.panic)
            /\ tag' = h.tag
            /\ UNCHANGED <<buf, state, total_parsed>>
       ELSE /\ tag' = h.tag
            /\ state' = h.state
            /\ UNCHANGED result
            /\ IF h.processed = 0
               THEN pc' = "outer" /\ UNCHANGED <<buf, total_parsed>>
               ELSE LET a == Advance(buf, total_parsed, h.processed) IN
                    /\ buf' = a.buf
                    /\ total_parsed' = a.total
                    /\ pc' = IF Len(a.buf) = 0 THEN "outer" ELSE "inner"
    /\ UNCHANGED <<delivered, end_of_file>>
    /\ UNCHANGED dvars

FindTag ==
    pc = "inner" /\ state = "FindParserTag" /\ Inner(_state_find_tag(buf, tag))

SkipComment ==
    pc = "inner" /\ state = "SkipComment" /\ Inner(_state_skip_comment(buf, tag))

ReadTagName ==
    /\ pc = "inner" /\ state = "ReadParserTagName"
    /\ Inner(_state_read_tag_name(buf, tag))

ReadData ==
    pc = "inner" /\ state = "ReadData" /\ Inner(_state_read_data(buf, tag))

ReadRawData ==
    /\ pc = "inner" /\ state = "ReadRawData"
    /\ Inner(_state_read_raw_data(buf, tag))

ReadAttributeName ==
    /\ pc = "inner" /\ state = "ReadAttributeName"
    /\ Inner(_state_read_attribute_name(buf, tag))

ReadAttributeValue ==
    /\ pc = "inner" /\ state = "ReadAttributeValue"
    /\ Inner(_state_read_attribute_value(buf, tag))

\* the match on state in the inner loop
Dispatch(s, b, t) ==
    CASE s = "FindParserTag" -> _state_find_tag(b, t)
      [] s = "SkipComment" -> _state_skip_comment(b, t)
      [] s = "ReadParserTagName" -> _state_read_tag_name(b, t)
      [] s = "ReadData" -> _state_read_data(b, t)
      [] s = "ReadRawData" -> _state_read_raw_data(b, t)
      [] s = "ReadAttributeName" -> _state_read_attribute_name(b, t)
      [] s = "ReadAttributeValue" -> _state_read_attribute_value(b, t)

Next ==
    \/ ReadChunk
    \/ ReadEof
    \/ ReadFail
    \/ SkipRead
    \/ FindTag
    \/ SkipComment
    \/ ReadTagName
    \/ ReadData
    \/ ReadRawData
    \/ ReadAttributeName
    \/ ReadAttributeValue

Spec == Init /\ [][Next]_vars

\* the Store on its own, from Store::new
StoreNext == StoreNewNode \/ StoreRemove \/ Retain \/ StoreRecurse

StoreSpec == Init /\ [][StoreNext]_vars

\* the Dom on its own, from Dom::new: the handler callbacks and retain
DomNext == HandleStart \/ HandleEnd \/ HandleData \/ Retain

DomSpec == Init /\ [][DomNext]_vars

----------------------------------------------------------------------------
(* Properties *)

Terminated == pc \in {"returned", "aborted"}
ReturnedOk == pc = "returned" /\ result.kind = "Ok"

\* the source is exhausted and the current handler consumes nothing from the
\* non-empty buffer and changes nothing: no later pass can differ
NoProgress ==
    /\ pc = "inner"
    /\ end_of_file
    /\ LET h == Dispatch(state, buf, tag) IN
       /\ h.panic = NoPanic
       /\ h.processed = 0
       /\ h.state = state
       /\ h.tag = tag
       /\ h.out = <<>>

\* C1: for every finite input and every chunking, parse eventually returns;
\* with the source exhausted and a handler that consumes nothing from a
\* non-empty buffer, the outer loop terminates instead of spinning.
C1_NoSpin == [][NoProgress => Terminated']_vars

\* C2: unless a tag name is unknown, parse never aborts: no handler indexes
\* past the end of the buffer or unwraps an absent value.
C2_NoAbort ==
    ~(pc = "aborted" /\ result.why \in {"IndexOutOfBounds", "UnwrapNone"})

\* C3: a tag name that does not resolve ends parse with an UnknownTag error
\* result, not an abort, reporting the bytes consumed before the tag.
C3_UnknownTagIsError ==
    result.why = "UnknownTag" =>
        /\ pc = "returned"
        /\ result.kind = "Err"
        /\ result.count = {tag_start}

\* C4: a failed read ends parse at once with the source's error, and the
\* result reports the number of bytes consumed before the failure.
C4_ReadFailureReportsCount ==
    result.kind = "Err" =>
        /\ pc = "returned"
        /\ result.why = "IoError"
        /\ result.count = {total_parsed}

\* C5: bytes consumed plus bytes buffered equals bytes delivered at every
\* point, so a successful parse returns the number of bytes delivered.
C5_ByteAccounting ==
    /\ total_parsed + Len(buf) = Len(delivered)
    /\ ReturnedOk => result.count = {Len(delivered)}

C5_Witness ==
    /\ ReturnedOk
    /\ Len(delivered) > 8
    /\ Len(events) > 2

\* the tree a Dom builds when it is the handler of this parse
BuiltDom == HandleAll(DomNew, events)

\* the source still holds the rest of document d, or has handed out all of it
Reading(d) == IsPrefix(delivered, d) /\ (end_of_file => delivered = d)

\* C6: for every well-formed input, serializing the tree built from it
\* reproduces the input, with every closing tag present.
C6_RoundTrip ==
    /\ pc = "aborted" => \A d \in WellFormedDocs : ~Reading(d)
    /\ (ReturnedOk /\ delivered \in WellFormedDocs) =>
          to_html(BuiltDom.store) = [html |-> delivered, panic |-> NoPanic]

RawDataVerbatim ==
    state = "ReadRawData" =>
        LET k == total_parsed - Len(tag.data) IN
        /\ k >= 1
        /\ delivered[k] \in {">", "/"}
        /\ tag.data = SubSeq(delivered, k + 1, total_parsed)
        /\ events # <<>>
        /\ Last(events).type = "start"
        /\ Last(events).tag \in {"SCRIPT", "STYLE"}

C9_StateAfterTagCallback ==
    [][ (Len(events') = Len(events) + 1 /\ Last(events').type # "data") =>
          state' = IF /\ Last(events').type = "start"
                      /\ Last(events').tag \in {"SCRIPT", "STYLE"}
                   THEN "ReadRawData"
                   ELSE "ReadData" ]_vars

Delivered(l) == [i \in 1..Len(l) |-> Attribute(l[i].name, l[i].value)]

HasBoolean(l) == \E i \in 1..Len(l) : l[i].value = <<>>

\* C10: an attribute name not followed by '=' is delivered as one attribute
\* with that name and an empty value, whether '>', a space and '>', or more
\* attributes follow; a space before '>' adds no attribute.
C10_BooleanAttribute ==
    (pc = "aborted" \/ ReturnedOk) =>
        \A l \in AttrLists, trail \in {<<>>, <<" ">>} :
            HasBoolean(l) =>
                /\ Reading(AttrDoc(l, trail)) => pc # "aborted"
                /\ (delivered = AttrDoc(l, trail) /\ ReturnedOk) =>
                      /\ events = << StartEvent("P", Delivered(l)) >>
                      /\ \A i \in 1..Len(l) :
                            l[i].value = <<>> =>
                                is_boolean(events[1].attributes[i])

C10_Witness ==
    /\ ReturnedOk
    /\ delivered = <<"<", "p", " ", "a", " ", ">">>
    /\ events = << StartEvent("P", <<Attribute(<<"a">>, <<>>)>>) >>

----------------------------------------------------------------------------
(* C11: in an attribute value a space ends the value and opens a new       *)
(* attribute only when the value is non-empty and unquoted; inside a       *)
(* value opened by a quote a space is content, so a quoted value with      *)
(* internal spaces is delivered as one attribute whose value is the bytes  *)
(* between the quotes.  Checked on every start tag of SpaceDocs delivered  *)
(* in full, under every chunking.                                          *)

\* some value of l holds a quote character between its quotes
MixedQuotes(l) ==
    \E i \in 1..Len(l) : \E j \in 1..Len(l[i].value) : IsQuote(l[i].value[j])

C11_SpaceInValue ==
    ReturnedOk =>
        \A l \in SpaceLists :
            delivered = SpaceDoc(l) =>
                events = << StartEvent("P", Delivered(l)) >>

\* the same, for values that do not hold the other quote character
C11_SpaceInValueSameQuote ==
    ReturnedOk =>
        \A l \in SpaceLists :
            (delivered = SpaceDoc(l) /\ ~MixedQuotes(l)) =>
                events = << StartEvent("P", Delivered(l)) >>

----------------------------------------------------------------------------
(* C12: from a fresh Dom and with no removals, after any sequence of       *)
(* handled events the live non-root nodes are exactly ids 1..n, n being    *)
(* the number of start-tag and data events handled, the i-th of which      *)
(* created id i; so len() = n, and len() = 0 when no event was handled    *)
(* (an empty source).                                                      *)

C12_LiveIdsAreEvents ==
    ~hist.retained =>
        LET n == Len(hist.data) IN
        /\ Live(temp_dom.store) = 0..n
        /\ Len(temp_dom.store) = n + 1
        /\ hist.ids = [i \in 1..n |-> i]
        /\ \A i \in 1..n :
              /\ Unwrap(temp_dom.store[i + 1]).id = i
              /\ Unwrap(temp_dom.store[i + 1]).data = Some(hist.data[i])
        /\ DomLen(temp_dom) = n
        /\ (op = NoOp => DomLen(temp_dom) = 0)

C12_Witness ==
    /\ ~hist.retained
    /\ Len(hist.data) = MaxNodes
    /\ temp_dom.current = None
    /\ \E i, j \in 1..MaxNodes : /\ hist.data[i].kind = "Element"
                                  /\ hist.data[j].kind = "Data"

----------------------------------------------------------------------------
(* C13: an insertion under a parent id that is not a live node (a          *)
(* tombstoned slot, or an id past the last slot) returns an error and      *)
(* leaves the store unchanged: no slot is added, no child list changes.    *)

InsertUnder(parent) == op'.name = "new_node_with_parent" /\ op'.id = parent

C13_InvalidParent ==
    [][\A parent \in 0..(MaxNodes + 1) :
          (InsertUnder(parent) /\ ~is_node(temp_dom.store, parent)) =>
              /\ op'.ret = None
              /\ temp_dom'.store = temp_dom.store]_vars

\* an insertion under a tombstoned slot has been refused while other nodes
\* are live
C13_Witness ==
    /\ op.name = "new_node_with_parent"
    /\ op.ret = None
    /\ op.id < Len(temp_dom.store)
    /\ temp_dom.store[op.id + 1] = None
    /\ StoreLen(temp_dom.store) > 1

----------------------------------------------------------------------------
(* C14: after any sequence of insertions and removals, each successful     *)
(* insertion returns an id strictly greater than every id ever issued      *)
(* before (ids since removed included), and the number of slots of the     *)
(* id-to-slot mapping never decreases.                                     *)

C14_IdsNeverReused ==
    [][/\ Len(temp_dom'.store) >= Len(temp_dom.store)
       /\ (op'.name = "new_node_with_parent" /\ op'.ret # None) =>
              /\ hist'.ids = Append(hist.ids, Unwrap(op'.ret))
              /\ \A i \in 1..Len(hist.ids) : Unwrap(op'.ret) > hist.ids[i]
              /\ Unwrap(op'.ret) > ROOT_NODE_ID]_vars

\* an insertion has succeeded after the node with the highest id so far
\* was removed
C14_Witness ==
    /\ op.name = "new_node_with_parent"
    /\ op.ret # None
    /\ Len(hist.ids) >= 2
    /\ temp_dom.store[hist.ids[Len(hist.ids) - 1] + 1] = None

----------------------------------------------------------------------------
(* C15: removing a live non-root node that has k live descendants          *)
(* tombstones exactly that node and those k descendants and decreases the  *)
(* live-node count by exactly k+1; every node outside the subtree stays    *)
(* live with its payload and parent unchanged.                             *)

\* the ids on the parent links from n upwards, n excluded
RECURSIVE Ancestors(_, _)
Ancestors(nodes, n) ==
    IF nodes[n + 1] = None \/ Unwrap(nodes[n + 1]).parent = None THEN {}
    ELSE LET p == Unwrap(Unwrap(nodes[n + 1]).parent)
         IN  {p} \cup Ancestors(nodes, p)

\* the live descendants of id
Descendants(nodes, id) == { n \in Live(nodes) : id \in Ancestors(nodes, n) }

C15_RemoveSubtree ==
    [][\A id \in 1..MaxNodes :
          (op'.name = "remove" /\ op'.id = id /\ is_node(temp_dom.store, id)) =>
              LET before == temp_dom.store
                  after == temp_dom'.store
                  gone == {id} \cup Descendants(before, id)
              IN  /\ temp_dom'.panic = NoPanic
                  /\ Live(after) = Live(before) \ gone
                  /\ StoreLen(after) = StoreLen(before) - Cardinality(gone)
                  /\ \A n \in Live(before) \ gone :
                        /\ Unwrap(after[n + 1]).data = Unwrap(before[n + 1]).data
                        /\ Unwrap(after[n + 1]).parent =
                               Unwrap(before[n + 1]).parent]_vars

\* a live non-root node with descendants has been removed and a node
\* outside its subtree is left
C15_Witness ==
    /\ op.name = "remove"
    /\ op.id # ROOT_NODE_ID
    /\ Len(op.visited) >= 2
    /\ temp_dom.panic = NoPanic
    /\ StoreLen(temp_dom.store) > 1

----------------------------------------------------------------------------
(* C16: remove(id) with an id that is not a live node (already tombstoned  *)
(* or out of range) changes nothing in the store.                          *)

C16_RemoveNotLive ==
    [][\A id \in 0..(MaxNodes + 1) :
          (op'.name = "remove" /\ op'.id = id /\ ~is_node(temp_dom.store, id)) =>
              /\ temp_dom'.store = temp_dom.store
              /\ temp_dom'.panic = NoPanic]_vars

\* a tombstoned id has been removed again while other nodes are live
C16_Witness ==
    /\ op.name = "remove"
    /\ op.visited = <<>>
    /\ op.id < Len(temp_dom.store)
    /\ temp_dom.store[op.id + 1] = None
    /\ StoreLen(temp_dom.store) > 1

----------------------------------------------------------------------------
(* C17: after retain(p) the live non-root nodes are exactly the            *)
(* previously live nodes that satisfied p and all of whose ancestors       *)
(* below the root satisfied p; an always-true predicate leaves len()       *)
(* unchanged and an always-false one drives len() to 0.                    *)

NonRoot(nodes) == Live(nodes) \ {ROOT_NODE_ID}

Kept(nodes, keep) ==
    { n \in NonRoot(nodes) :
        /\ n \in keep
        /\ (Ancestors(nodes, n) \ {ROOT_NODE_ID}) \subseteq keep }

C17_Retain ==
    [][op'.name = "retain" =>
          LET before == temp_dom.store
              after == temp_dom'.store
          IN  /\ temp_dom'.panic = NoPanic
              /\ NonRoot(after) = Kept(before, op'.keep)
              /\ (NonRoot(before) \subseteq op'.keep =>
                     StoreLen(after) = StoreLen(before))
              /\ (op'.keep = {} => StoreLen(after) - 1 = 0)]_vars

\* a retain has removed a node that satisfied the predicate, because an
\* ancestor did not, and has left another node live
C17_Witness ==
    /\ op.name = "retain"
    /\ \E n \in op.keep : temp_dom.store[n + 1] = None
    /\ NonRoot(temp_dom.store) # {}

----------------------------------------------------------------------------
(* C18: after any sequence of insertions, removals and retains, every      *)
(* live node other than the root has a live parent whose child list        *)
(* contains that node's id exactly once, no other node's child list        *)
(* contains it, and following parent links from any live node reaches id   *)
(* 0 without revisiting a node.                                            *)

Occurrences(seq, x) == Cardinality({ i \in 1..Len(seq) : seq[i] = x })

\* the parent links from n reach the root in at most fuel steps
RECURSIVE ReachesRoot(_, _, _)
ReachesRoot(nodes, n, fuel) ==
    IF n = ROOT_NODE_ID THEN TRUE
    ELSE IF fuel = 0 \/ nodes[n + 1] = None
              \/ Unwrap(nodes[n + 1]).parent = None
         THEN FALSE
         ELSE ReachesRoot(nodes, Unwrap(Unwrap(nodes[n + 1]).parent), fuel - 1)

C18_Forest ==
    LET nodes == temp_dom.store IN
    \A n \in NonRoot(nodes) :
        LET parent == Unwrap(nodes[n + 1]).parent IN
        /\ parent # None
        /\ is_node(nodes, Unwrap(parent))
        /\ \A m \in Live(nodes) :
              Occurrences(Unwrap(nodes[m + 1]).children, n) =
                  IF m = Unwrap(parent) THEN 1 ELSE 0
        /\ ReachesRoot(nodes, n, Len(nodes) - 1)

\* after a removal, a retain has left a node live below a non-root parent
C18_Witness ==
    /\ op.name = "retain"
    /\ \E i \in 1..Len(temp_dom.store) : temp_dom.store[i] = None
    /\ \E n \in NonRoot(temp_dom.store) :
          Unwrap(temp_dom.store[n + 1]).parent # Some(ROOT_NODE_ID)

----------------------------------------------------------------------------
(* C19: after any sequence of Dom operations (handled parse events and     *)
(* retain with any predicate) node 0 is live, has no parent and no         *)
(* payload; retain never passes the root to the predicate and never        *)
(* removes it.                                                             *)

C19_RootSentinel ==
    /\ is_node(temp_dom.store, ROOT_NODE_ID)
    /\ Unwrap(temp_dom.store[ROOT_NODE_ID + 1]).id = ROOT_NODE_ID
    /\ Unwrap(temp_dom.store[ROOT_NODE_ID + 1]).parent = None
    /\ Unwrap(temp_dom.store[ROOT_NODE_ID + 1]).data = None
    /\ op.name = "retain" =>
          /\ \A i \in 1..Len(op.visited) : op.visited[i] # ROOT_NODE_ID
          /\ temp_dom.panic = NoPanic

\* a retain whose predicate rejects every node has emptied a tree of
\* several nodes
C19_Witness ==
    /\ op.name = "retain"
    /\ op.keep = {}
    /\ Len(op.visited) >= 2
    /\ Live(temp_dom.store) = {ROOT_NODE_ID}

----------------------------------------------------------------------------
(* C20: the serialization of any tree reachable by parse events and        *)
(* retains is the concatenation, over the root's children in child-list    *)
(* order, of S(n), where S(element) is its opening tag, S of its children  *)
(* in order, and its closing tag, and S(data) is its text; so every        *)
(* element has one opening and one matching closing tag, properly nested,  *)
(* also when no end-tag event closed it.                                   *)

RECURSIVE S(_, _)
RECURSIVE SOfAll(_, _)
S(nodes, n) ==
    LET node == Unwrap(nodes[n + 1])
        data == Unwrap(node.data)
    IN  IF data.kind = "Element"
        THEN Element(TagToString(data.tag), AttributesToHTML(data.attributes),
                     SOfAll(nodes, node.children))
        ELSE data.text

SOfAll(nodes, cs) ==
    IF cs = <<>> THEN <<>> ELSE S(nodes, Head(cs)) \o SOfAll(nodes, Tail(cs))

C20_Serialization ==
    to_html(temp_dom.store) =
        [html |-> SOfAll(temp_dom.store,
                         Unwrap(temp_dom.store[ROOT_NODE_ID + 1]).children),
         panic |-> NoPanic]

\* after a retain, an element that no end tag has closed holds a child
C20_Witness ==
    /\ hist.retained
    /\ temp_dom.panic = NoPanic
    /\ temp_dom.current # None
    /\ is_node(temp_dom.store, Unwrap(temp_dom.current))
    /\ \E n \in NonRoot(temp_dom.store) :
          /\ Unwrap(temp_dom.store[n + 1]).parent # Some(ROOT_NODE_ID)
          /\ Unwrap(Unwrap(temp_dom.store[n + 1]).data).kind = "Data"

----------------------------------------------------------------------------
(* C21: recurse from a live root id invokes visit exactly once for every   *)
(* live descendant, in pre-order following child-list order, with depth    *)
(* equal to the number of nodes strictly between the descendant and the    *)
(* given root (0 for immediate children); from an id that is not live it   *)
(* invokes visit zero times.                                               *)

\* the place of id in the calls v
Pos(v, id) == CHOOSE i \in 1..Len(v) : v[i][1] = id

\* v lists the nodes of below in pre-order: each node is followed at once
\* by all its descendants, and siblings come in child-list order
PreOrder(nodes, v, below) ==
    /\ \A n \in below :
          LET d == Descendants(nodes, n) IN
          { v[i][1] : i \in (Pos(v, n) + 1)..(Pos(v, n) + Cardinality(d)) } = d
    /\ \A m \in Live(nodes) :
          LET cs == Unwrap(nodes[m + 1]).children IN
          \A i, j \in 1..Len(cs) :
              (i < j /\ cs[i] \in below /\ cs[j] \in below) =>
                  Pos(v, cs[i]) < Pos(v, cs[j])

C21_Recurse ==
    op.name = "recurse" =>
        LET nodes == temp_dom.store
            v == op.visited
        IN  IF ~is_node(nodes, op.id) THEN v = <<>>
            ELSE LET below == Descendants(nodes, op.id) IN
                 /\ Len(v) = Cardinality(below)
                 /\ { v[i][1] : i \in 1..Len(v) } = below
                 /\ \A i \in 1..Len(v) :
                       v[i][2] = Cardinality(Ancestors(nodes, v[i][1])
                                             \cap below)
                 /\ PreOrder(nodes, v, below)

\* a traversal has visited a child and a grandchild of its root while a
\* removed slot exists
C21_Witness ==
    /\ op.name = "recurse"
    /\ \E i \in 1..Len(op.visited) : op.visited[i][2] = 1
    /\ \E i \in 1..Len(temp_dom.store) : temp_dom.store[i] = None

----------------------------------------------------------------------------
(* C22: a start-tag event adds exactly one node, an element carrying the   *)
(* given tag and attributes, as the last child of the cursor node (of the  *)
(* root when the cursor is none), and sets the cursor to the new node's    *)
(* id; no other node changes.                                              *)

\* the node the cursor names, the root when the cursor is none
CursorNode(dom) ==
    IF dom.current = None THEN ROOT_NODE_ID ELSE Unwrap(dom.current)

\* after is before with one more node, holding data, as the last child of
\* parent, and nothing else changed
AddsNode(before, after, parent, data) ==
    LET id == Len(before) IN
    /\ Len(after) = Len(before) + 1
    /\ after[id + 1] = Some(Node(id, Some(parent), <<>>, Some(data)))
    /\ is_node(before, parent)
    /\ after[parent + 1] =
          Some([Unwrap(before[parent + 1]) EXCEPT !.children = Append(@, id)])
    /\ \A m \in 0..(Len(before) - 1) :
          m # parent => after[m + 1] = before[m + 1]

StartTagAddsNode ==
    /\ temp_dom'.panic = NoPanic
    /\ AddsNode(temp_dom.store, temp_dom'.store, CursorNode(temp_dom),
                Unwrap(op'.arg))
    /\ temp_dom'.current = Some(Len(temp_dom.store))

C22_StartTag == [][op'.name = "handle_starttag" => StartTagAddsNode]_vars

\* the same, when the cursor is none or names a live node
C22_StartTagLiveCursor ==
    [][(op'.name = "handle_starttag"
          /\ is_node(temp_dom.store, CursorNode(temp_dom))) =>
              StartTagAddsNode]_vars

----------------------------------------------------------------------------
(* C23: an end-tag event with an element open moves the cursor to the      *)
(* parent of the cursor node and changes nothing in the arena; the         *)
(* resulting cursor is the same for every value of the tag argument,       *)
(* whether or not it matches the open element.                             *)

\* the cursor names an element, live or not
ElementOpen(dom) == dom.current # None /\ dom.current # Some(ROOT_NODE_ID)

EndTagMovesUp ==
    /\ temp_dom'.panic = NoPanic
    /\ temp_dom'.store = temp_dom.store
    /\ is_node(temp_dom.store, Unwrap(temp_dom.current))
    /\ temp_dom'.current =
          Unwrap(temp_dom.store[Unwrap(temp_dom.current) + 1]).parent
    /\ \A t \in DomTags : handle_endtag(temp_dom, t) = temp_dom'

C23_EndTag ==
    [][(op'.name = "handle_endtag" /\ ElementOpen(temp_dom)) =>
          EndTagMovesUp]_vars

\* the same, when the element the cursor names is live
C23_EndTagLiveCursor ==
    [][(op'.name = "handle_endtag" /\ ElementOpen(temp_dom)
          /\ is_node(temp_dom.store, Unwrap(temp_dom.current))) =>
              EndTagMovesUp]_vars

----------------------------------------------------------------------------
(* C24: an extraneous end-tag event, arriving when no element is open      *)
(* (cursor none, including after earlier extraneous closers), is           *)
(* tolerated: the builder does not fail, the arena is unchanged, and       *)
(* subsequent nodes attach to the root.                                    *)

NoElementOpen(dom) == dom.current = None \/ dom.current = Some(ROOT_NODE_ID)

C24_ExtraneousEndTag ==
    [][(op'.name = "handle_endtag" /\ NoElementOpen(temp_dom)) =>
          /\ temp_dom'.panic = NoPanic
          /\ temp_dom'.store = temp_dom.store
          /\ CursorNode(temp_dom') = ROOT_NODE_ID]_vars

----------------------------------------------------------------------------
(* C25: a data event adds exactly one node, a data node holding the        *)
(* decoded text, as the last child of the cursor node (of the root when    *)
(* the cursor is none), and leaves the cursor unchanged.                   *)

DataAddsNode ==
    /\ temp_dom'.panic = NoPanic
    /\ AddsNode(temp_dom.store, temp_dom'.store, CursorNode(temp_dom),
                Unwrap(op'.arg))
    /\ Unwrap(op'.arg).kind = "Data"
    /\ temp_dom'.current = temp_dom.current

C25_Data == [][op'.name = "handle_data" => DataAddsNode]_vars

\* the same, when the cursor is none or names a live node
C25_DataLiveCursor ==
    [][(op'.name = "handle_data"
          /\ is_node(temp_dom.store, CursorNode(temp_dom))) =>
              DataAddsNode]_vars

----------------------------------------------------------------------------
(* C26: after any sequence of public Dom operations (parse calls,          *)
(* possibly several on the same Dom, interleaved with retain calls),       *)
(* whenever a start-tag or data event is handled the insertion parent      *)
(* (the cursor, or the root if none) is a live node, so insertion during   *)
(* parsing never fails with InvalidParent.                                 *)

C26_InsertionParentLive ==
    [][op'.name \in {"handle_starttag", "handle_data"} =>
          /\ is_node(temp_dom.store, CursorNode(temp_dom))
          /\ temp_dom'.panic = NoPanic]_vars

----------------------------------------------------------------------------
(* C27: once a read from the source has returned zero bytes, parse never   *)
(* reads from the source again during that call, even if the source would  *)
(* later deliver more bytes; and a read is attempted only when the buffer  *)
(* holds fewer than 64 bytes.                                              *)

\* this step is a call of source.read: it delivered bytes, returned zero or
\* failed
ReadAttempted ==
    \/ delivered' # delivered
    \/ end_of_file' # end_of_file
    \/ (result'.kind = "Err" /\ result.kind # "Err")

----------------------------------------------------------------------------
(* C28: for a fixed input byte sequence the outcome of parse (the handler  *)
(* callbacks with their arguments, and the result) is the same for every   *)
(* way the source splits the input into non-empty reads, and equals the    *)
(* outcome when the whole input is delivered in one read.                  *)

\* the loops of parse on the whole input b, read at once and followed by a
\* read of zero bytes; "Spin" when a handler consumes nothing from what is
\* left and changes nothing
RECURSIVE InnerLoop(_, _, _, _, _)
InnerLoop(b, t, s, es, total) ==
    IF b = <<>> THEN [events |-> es, result |-> Ok(total)]
    ELSE LET h == Dispatch(s, b, t) IN
         IF h.panic # NoPanic
         THEN [events |-> es \o h.out, result |-> Panic(h.panic)]
         ELSE IF h.processed = 0 /\ h.state = s /\ h.tag = t
              THEN [events |-> es \o h.out,
                    result |-> [kind |-> "Spin", count |-> {}, why |-> "none"]]
              ELSE LET a == Advance(b, total, h.processed) IN
                   InnerLoop(a.buf, h.tag, h.state, es \o h.out, a.total)

OneRead(input) == InnerLoop(input, InitTag, "FindParserTag", <<>>, 0)

Outcome == [events |-> events, result |-> result]

\* the inputs the bytes delivered so far may be the beginning of
Completions == { d \in Docs : IsPrefix(delivered, d) } \cup {delivered}

C28_ChunkInvarianceButBang ==
    /\ ReturnedOk => OneRead(delivered) = Outcome
    /\ (pc = "aborted" /\ result.why # "IndexOutOfBounds") =>
          \A d \in Completions : OneRead(d) = Outcome

----------------------------------------------------------------------------
(* C29: for every attribute whose value in the source begins with a quote  *)
(* character, the value delivered to the start-tag callback contains       *)
(* neither that opening quote nor the closing quote, in every case in      *)
(* which the tag is delivered (including a tag ended by '>' before a       *)
(* closing quote was seen).                                                *)

\* the bytes of a value are pushed from the source in order, so a delivered
\* value begins with a quote character exactly when the source value does
\* and the opening quote was kept
KeepsQuote(value) ==
    value # <<>> /\ (IsQuote(Head(value)) \/ IsQuote(value[Len(value)]))

StartAttributes ==
    { events[i].attributes : i \in { k \in 1..Len(events) :
                                       events[k].type = "start" } }

C29_QuotesStripped ==
    \A attrs \in StartAttributes :
        \A j \in 1..Len(attrs) : ~KeepsQuote(attrs[j].value)

\* the same for the tags whose quoted values are closed before the '>'
C29_QuotesStrippedWhenClosed ==
    JunkLen(delivered) = 0 => C29_QuotesStripped

----------------------------------------------------------------------------
(* C30: a tag is reported through the end-tag callback exactly when '/' is *)
(* the first character after '<'; a '/' occurring later in the tag (as in  *)
(* "<br/>" or "<br />") does not turn it into a closing tag, and no byte   *)
(* of the tag is delivered as character data.                              *)

\* the positions of d where a tag begins with "</"
ClosingTagsIn(d) ==
    { i \in 1..(Len(d) - 1) : d[i] = "<" /\ d[i + 1] = "/" }

EndEvents == { i \in 1..Len(events) : events[i].type = "end" }

\* some data callback received a '/' or a '>'; the text of the documents
\* below holds neither
TagByteAsData ==
    \E i \in 1..Len(events) :
        /\ events[i].type = "data"
        /\ \E j \in 1..Len(events[i].data) : events[i].data[j] \in {"/", ">"}

ClosingTagsReported ==
    /\ Cardinality(EndEvents) = Cardinality(ClosingTagsIn(delivered))
    /\ ~TagByteAsData

C30_ClosingTags ==
    (ReturnedOk /\ delivered \in WellFormedDocs \cup SelfClosingDocs) =>
        ClosingTagsReported

\* the same for the documents with no '/' later in a tag
C30_ClosingTagsSlashFirst ==
    (ReturnedOk /\ delivered \in WellFormedDocs) => ClosingTagsReported

----------------------------------------------------------------------------
(* C31: the data callback is invoked only when a '<' is reached (in        *)
(* ReadData, or at the matching closing tag in ReadRawData) and never with *)
(* an empty payload; text still accumulated when the source ends, and all  *)
(* bytes skipped in FindTag, produce no event.                             *)

\* the callbacks made by the step
NewEvents == SubSeq(events', Len(events) + 1, Len(events'))

\* the handler of the current state stops in front of a '<'
StopsAtTagStart ==
    LET h == Dispatch(state, buf, tag) IN
    h.processed < Len(buf) /\ buf[h.processed + 1] = "<"

DataOnlyAtTagStart ==
    /\ \A i \in 1..Len(NewEvents) :
          NewEvents[i].type = "data" =>
              /\ state \in {"ReadData", "ReadRawData"}
              /\ NewEvents[i].data # <<>>
              /\ StopsAtTagStart
    /\ state = "FindParserTag" => events' = events
    /\ pc' = "returned" => events' = events

C31_DataOnlyAtTagStart == [][DataOnlyAtTagStart]_vars

\* parse has returned with text accumulated and not delivered, after a data
\* callback for the text before a tag
C31_Witness ==
    /\ ReturnedOk
    /\ state = "ReadData" /\ tag.data # <<>>
    /\ \E i \in 1..Len(events) : events[i].type = "data"
    /\ ~\E i \in 1..Len(events) :
          events[i].type = "data" /\ events[i].data = tag.data

----------------------------------------------------------------------------
(* C32: after any sequence of insertions, removals and retains, every id   *)
(* in the child list of a live node names a live node, so serialization    *)
(* and traversal never dereference a tombstoned slot.                      *)

ChildrenOf(nodes, m) == Unwrap(nodes[m + 1]).children

C32_ChildrenLive ==
    LET nodes == temp_dom.store IN
    /\ \A m \in Live(nodes) :
          \A i \in 1..Len(ChildrenOf(nodes, m)) :
              is_node(nodes, ChildrenOf(nodes, m)[i])
    /\ to_html(nodes).panic = NoPanic
    /\ op.name = "recurse" =>
          \A i \in 1..Len(op.visited) : is_node(nodes, op.visited[i][1])

\* a removal has tombstoned a subtree of two nodes or more and a live node
\* still has children
C32_Witness ==
    /\ op.name = "remove"
    /\ Len(op.visited) >= 2
    /\ \E m \in Live(temp_dom.store) : ChildrenOf(temp_dom.store, m) # <<>>

----------------------------------------------------------------------------
(* C33: after any sequence of events handled by a Dom, every data node has *)
(* an empty child list: the cursor only ever names an element node or the  *)
(* root, so no node is ever inserted under a data node.                    *)

KindOf(nodes, n) == Unwrap(Unwrap(nodes[n + 1]).data).kind

\* the cursor is none, or names the root or a live element node
CursorOnElement(dom) ==
    \/ dom.current = None
    \/ /\ is_node(dom.store, Unwrap(dom.current))
       /\ \/ Unwrap(dom.current) = ROOT_NODE_ID
          \/ KindOf(dom.store, Unwrap(dom.current)) = "Element"

C33_DataNodesAreLeaves ==
    LET nodes == temp_dom.store IN
    /\ \A n \in NonRoot(nodes) :
          KindOf(nodes, n) = "Data" => Unwrap(nodes[n + 1]).children = <<>>
    /\ ~hist.retained => CursorOnElement(temp_dom)

\* a data event has been handled while the cursor named an element, which
\* it still names
C33_Witness ==
    /\ op.name = "handle_data" /\ op.ret # None
    /\ ~hist.retained
    /\ temp_dom.current # None
    /\ Unwrap(temp_dom.current) # ROOT_NODE_ID
    /\ KindOf(temp_dom.store, Unwrap(op.ret)) = "Data"

----------------------------------------------------------------------------
(* C34: a quoted attribute value is terminated only by the same quote      *)
(* character that opened it: the other quote character inside the value is *)
(* kept as content, and a quote character inside an unquoted value does    *)
(* not end the value.                                                      *)

QuotedDoc(l, x) == Element(NameP, AttrSrc(l), x)

\* the start tag of the document is delivered with the attributes written
StartTagAsWritten(l) ==
    /\ events # <<>>
    /\ events[1] = StartEvent("P", Delivered(l))

C34_SameQuoteCloses ==
    ReturnedOk =>
        \A l \in QuotedLists : \A x \in Texts :
            delivered = QuotedDoc(l, x) => StartTagAsWritten(l)

\* the same for the values holding no quote character
C34_SameQuoteClosesPlain ==
    ReturnedOk =>
        \A l \in QuotedLists : \A x \in Texts :
            (delivered = QuotedDoc(l, x) /\ ~MixedQuotes(l)) =>
                StartTagAsWritten(l)

----------------------------------------------------------------------------
(* C35: every attribute delivered to the start-tag callback has a          *)
(* non-empty name (empty placeholder attributes are never delivered,       *)
(* whatever the position of '=' and spaces in the tag), and each start-tag *)
(* event carries only attributes that appear in its own tag, in source     *)
(* order.                                                                  *)

\* the bytes from the '<' of the tag being read to the last byte the step
\* consumed
TagSource == SubSeq(delivered, tag_start + 1, total_parsed')

\* the names and values of the attributes, in order, as one byte sequence
RECURSIVE AttributeBytes(_)
AttributeBytes(attrs) ==
    IF attrs = <<>> THEN <<>>
    ELSE Head(attrs).name \o Head(attrs).value \o AttributeBytes(Tail(attrs))

\* the bytes of a occur in b, in order
RECURSIVE OccursInOrder(_, _)
OccursInOrder(a, b) ==
    IF a = <<>> THEN TRUE
    ELSE IF b = <<>> THEN FALSE
    ELSE IF Head(a) = Head(b) THEN OccursInOrder(Tail(a), Tail(b))
    ELSE OccursInOrder(a, Tail(b))

AllNamed(attrs) == \A j \in 1..Len(attrs) : attrs[j].name # <<>>

NewStartEvents ==
    { NewEvents[i] : i \in { k \in 1..Len(NewEvents) :
                               NewEvents[k].type = "start" } }

C35_Attributes ==
    [][\A e \in NewStartEvents :
          /\ AllNamed(e.attributes)
          /\ OccursInOrder(AttributeBytes(e.attributes), TagSource)]_vars

\* the second half alone: the attributes of a start-tag event are made of
\* the bytes of its own tag, in source order
C35_OwnAttributes ==
    [][\A e \in NewStartEvents :
          OccursInOrder(AttributeBytes(e.attributes), TagSource)]_vars

====
